---- MODULE Spec2Model ----
(***************************************************************************)
(* Bolao (src/app.py): the scoring function calcular_pontuacao_jogo, the   *)
(* round lifecycle (cadastrar_rodada, salvar_aposta, placar_admin_salvar,  *)
(* calcular_ranking, excluir_rodada, consulta_palpites) over the MongoDB   *)
(* collections rodadas, palpites and ranking.                              *)
(*                                                                         *)
(* Python's None is the empty sequence <<>>, an integer n is <<n>>.        *)
(***************************************************************************)
EXTENDS Integers, Sequences, FiniteSets, TLC

VARIABLES
    agora,        \* datetime.now(), in clock ticks
    rodadas,      \* rodadas_collection: set of round documents
    palpites,     \* palpites_collection: set of prediction documents
    ranking,      \* ranking_collection: set of score documents
    proximo_id,   \* next ObjectId the driver hands out for a round
    resposta,     \* what the last request answered (flash message, page shown)
    entrada,      \* arguments of a call of calcular_pontuacao_jogo
    pontos,       \* value that call returned
    pc,           \* position of each concurrent calcular_ranking request
    lido          \* what each concurrent request has read into its locals

vars == <<agora, rodadas, palpites, ranking, proximo_id, resposta,
          entrada, pontos, pc, lido>>

----------------------------------------------------------------------------
(* Python values *)

None == <<>>

Num(n) == <<n>>

Val(x) == x[1]

----------------------------------------------------------------------------
(* calcular_pontuacao_jogo *)

\* a draw taken for a home win
ResultadoEmpateCasa(casa, visitante) ==
    IF casa >= visitante THEN 1 ELSE -1

\* 1: home wins, -1: away wins, 0: draw
Resultado(casa, visitante) ==
    IF casa > visitante THEN 1
    ELSE IF casa < visitante THEN -1
    ELSE 0

\* the outcome checked before the exact score
PontuacaoResultadoPrimeiro(placar_oficial_casa, placar_oficial_visitante, palpite_casa, palpite_visitante) ==
    IF \/ placar_oficial_casa = None
       \/ placar_oficial_visitante = None
       \/ palpite_casa = None
       \/ palpite_visitante = None
    THEN 0
    ELSE IF Resultado(Val(placar_oficial_casa), Val(placar_oficial_visitante))
            = Resultado(Val(palpite_casa), Val(palpite_visitante))
    THEN 5
    ELSE IF /\ placar_oficial_casa = palpite_casa
            /\ placar_oficial_visitante = palpite_visitante
    THEN 10
    ELSE 0

\* the goal difference compared instead of the outcome
PontuacaoPorSaldo(placar_oficial_casa, placar_oficial_visitante, palpite_casa, palpite_visitante) ==
    IF \/ placar_oficial_casa = None
       \/ placar_oficial_visitante = None
       \/ palpite_casa = None
       \/ palpite_visitante = None
    THEN 0
    ELSE IF /\ placar_oficial_casa = palpite_casa
            /\ placar_oficial_visitante = palpite_visitante
    THEN 10
    ELSE IF Val(placar_oficial_casa) - Val(placar_oficial_visitante)
            = Val(palpite_casa) - Val(palpite_visitante)
    THEN 5
    ELSE 0

\* the exact score told by the home goals alone
PontuacaoSoCasa(placar_oficial_casa, placar_oficial_visitante, palpite_casa, palpite_visitante) ==
    IF \/ placar_oficial_casa = None
       \/ placar_oficial_visitante = None
       \/ palpite_casa = None
       \/ palpite_visitante = None
    THEN 0
    ELSE IF placar_oficial_casa = palpite_casa
    THEN 10
    ELSE IF Resultado(Val(placar_oficial_casa), Val(placar_oficial_visitante))
            = Resultado(Val(palpite_casa), Val(palpite_visitante))
    THEN 5
    ELSE 0

calcular_pontuacao_jogo(placar_oficial_casa, placar_oficial_visitante, palpite_casa, palpite_visitante) ==
    IF \/ placar_oficial_casa = None
       \/ placar_oficial_visitante = None
       \/ palpite_casa = None
       \/ palpite_visitante = None
    THEN 0
    ELSE IF /\ placar_oficial_casa = palpite_casa
            /\ placar_oficial_visitante = palpite_visitante
    THEN 10
    ELSE IF Resultado(Val(placar_oficial_casa), Val(placar_oficial_visitante))
            = Resultado(Val(palpite_casa), Val(palpite_visitante))
    THEN 5
    ELSE 0

----------------------------------------------------------------------------
(* Documents and request forms *)

Usuarios == {"u1", "u2"}

\* ticks of the clock in one minute: datetime.now() is finer than the
\* minute resolution of DATETIME_FORMAT
TicksPorMinuto == 2

MaxAgora == 3

\* rounds ever created (ObjectIds handed out)
MaxIds == 1

RodadaIds == 1..MaxIds

\* request.form.get of a field that is not in the form
Ausente == "<None>"

\* s.strip()
strip(s) == IF s = " " THEN "" ELSE s

Inteiros == ("0" :> 0) @@ ("1" :> 1) @@ ("-1" :> -1)

\* int(s) raises ValueError unless s is the text of an integer
ValueError(s) == s \notin DOMAIN Inteiros

int(s) == Inteiros[s]

\* str(x): the text of an ObjectId <<rodada, i>>; a str is returned as it is
str(x) == IF Len(x) = 3 THEN x ELSE <<"oid">> \o x

\* datetime.strptime(s, DATETIME_FORMAT): the instant the text names.
\* A stored deadline text is the number of its minute.
strptime(minuto) == minuto * TicksPorMinuto

\* agora.strftime(DATETIME_FORMAT): the text of the minute of an instant
strftime(instante) == instante \div TicksPorMinuto

\* fields a bettor's form sends for one match: <<placar_casa, placar_visitante>>
CamposPalpite == {<<"1", "1">>, <<"", "">>, <<"x", "0">>}

\* fields the administrator's result form sends for one match
CamposPlacar == {<<"0", "0">>, <<"", "1">>, <<"1", "x">>}

\* time_casa_id / time_visitante_id rows of the round form
LinhasJogos == { <<>>,
                 << <<"t1", "">> >>,
                 << <<"t1", "t2">> >>,
                 << <<"t1", "t1">> >>,
                 << <<"t1", "t2">>, <<"", "">>, <<"t2", "t1">> >> }

\* minute named by a valid date and time of the round form
Minutos == ("00:01" :> 1)

\* the round forms: numero_rodada, data_limite, hora_limite and the rows
FormsRodada ==
    [numero_rodada : {"1"}, data_limite : {"2025-10-26"},
     hora_limite : {"00:01"}, jogos : LinhasJogos]
    \cup
    [numero_rodada : {"1", "x"}, data_limite : {"", "2025-10-26"},
     hora_limite : {"", "00:01", "99:99"}, jogos : {<< <<"t1", "t2">> >>}]

Resposta(rota, rodada_id, flash, pagina) ==
    [rota |-> rota, rodada |-> rodada_id, flash |-> flash, pagina |-> pagina]

SemResposta == Resposta("", 0, "", {})

\* find_one({'_id': rodada_object_id})
find_rodada(rodada_id) == {r \in rodadas : r._id = rodada_id}

\* find({'rodada_id': rodada_object_id})
find_palpites(coll, rodada_id) == {p \in coll : p.rodada_id = rodada_id}

Chave(coll, usuario_id, rodada_id) ==
    {d \in coll : d.usuario_id = usuario_id /\ d.rodada_id = rodada_id}

\* insert_one in the place of the upsert: a document added on every call
insert_sempre(coll, usuario_id, rodada_id, campo, valor) ==
    coll \cup {[usuario_id |-> usuario_id, rodada_id |-> rodada_id]
               @@ (campo :> valor)}

\* update_one(filter, {'$set': campos}, upsert=True): the first document the
\* filter matches is updated, a document is inserted when it matches none
update_one_upsert(coll, usuario_id, rodada_id, campo, valor) ==
    LET achados == Chave(coll, usuario_id, rodada_id) IN
    IF achados = {}
    THEN coll \cup {[usuario_id |-> usuario_id, rodada_id |-> rodada_id]
                    @@ (campo :> valor)}
    ELSE LET d == CHOOSE x \in achados : TRUE IN
         (coll \ {d}) \cup {[d EXCEPT ![campo] = valor]}

\* a round reopened for scoring whenever its jogos are written
update_rodada_reabrindo(rodada_id, campo, valor) ==
    {IF r._id = rodada_id
     THEN [r EXCEPT ![campo] = valor,
                    !.processada = IF campo = "jogos" THEN FALSE ELSE valor]
     ELSE r : r \in rodadas}

\* update_one({'_id': rodada_object_id}, {'$set': {campo: valor}})
update_rodada(rodada_id, campo, valor) ==
    {IF r._id = rodada_id THEN [r EXCEPT ![campo] = valor] ELSE r : r \in rodadas}

Init ==
    /\ agora = 0
    /\ rodadas = {}
    /\ palpites = {}
    /\ ranking = {}
    /\ proximo_id = 1
    /\ resposta = SemResposta
    /\ entrada = <<>>
    /\ pontos = None
    /\ pc = <<>>
    /\ lido = <<>>

\* the wall clock advances
Tick ==
    /\ agora < MaxAgora
    /\ agora' = agora + 1
    /\ UNCHANGED <<rodadas, palpites, ranking, proximo_id, resposta,
                   entrada, pontos, pc, lido>>

----------------------------------------------------------------------------
(* cadastrar_rodada *)

LinhaVazia(linha) == linha[1] = "" /\ linha[2] = ""

LinhaIncompleta(linha) == ~LinhaVazia(linha) /\ (linha[1] = "" \/ linha[2] = "")

\* the jogos list built from the rows that are filled in
NovosJogos(rodada_id, linhas) ==
    LET validas == SelectSeq(linhas, LAMBDA l : ~LinhaVazia(l)) IN
    [i \in 1..Len(validas) |->
        [id_jogo |-> <<rodada_id, i>>,
         time_casa_id |-> validas[i][1],
         time_visitante_id |-> validas[i][2],
         placar_casa |-> None,
         placar_visitante |-> None,
         finalizado |-> FALSE]]

cadastrar_rodada(form) ==
    /\ proximo_id <= MaxIds
    /\ UNCHANGED <<agora, palpites, ranking, entrada, pontos, pc, lido>>
    /\ IF ValueError(form.numero_rodada)
       THEN /\ resposta' = Resposta("cadastrar_rodada", 0, "erro de formato", {})
            /\ UNCHANGED <<rodadas, proximo_id>>
       ELSE
       LET numero_rodada == int(form.numero_rodada) IN
       IF \E r \in rodadas : r.numero = numero_rodada
       THEN /\ resposta' = Resposta("cadastrar_rodada", 0, "ja cadastrada", {})
            /\ UNCHANGED <<rodadas, proximo_id>>
       ELSE IF form.data_limite = "" \/ form.hora_limite = ""
       THEN /\ resposta' = Resposta("cadastrar_rodada", 0, "data obrigatoria", {})
            /\ UNCHANGED <<rodadas, proximo_id>>
       ELSE IF form.hora_limite \notin DOMAIN Minutos
       THEN /\ resposta' = Resposta("cadastrar_rodada", 0, "data invalida", {})
            /\ UNCHANGED <<rodadas, proximo_id>>
       ELSE IF \E i \in 1..Len(form.jogos) : LinhaIncompleta(form.jogos[i])
       THEN /\ resposta' = Resposta("cadastrar_rodada", 0, "jogo incompleto", {})
            /\ UNCHANGED <<rodadas, proximo_id>>
       ELSE IF NovosJogos(proximo_id, form.jogos) = <<>>
       THEN /\ resposta' = Resposta("cadastrar_rodada", 0, "nenhuma partida", {})
            /\ UNCHANGED <<rodadas, proximo_id>>
       ELSE /\ rodadas' = rodadas \cup
                  {[_id |-> proximo_id,
                    numero |-> numero_rodada,
                    data_limite_apostas |-> Minutos[form.hora_limite],
                    jogos |-> NovosJogos(proximo_id, form.jogos),
                    processada |-> FALSE]}
            /\ proximo_id' = proximo_id + 1
            /\ resposta' = Resposta("cadastrar_rodada", proximo_id, "sucesso", {})

----------------------------------------------------------------------------
(* salvar_aposta *)

\* the value salvar_aposta reads from one field: a blank field counts as 0
CampoInvalidoPalpite(s) == s # Ausente /\ s # "" /\ strip(s) # "" /\ ValueError(s)

ValorPalpite(s) ==
    IF s # Ausente /\ s # "" /\ strip(s) # "" THEN int(s) ELSE 0

\* entries only for the jogos whose fields were filled in
NovosPalpitesSoPreenchidos(rodada, form) ==
    LET preenchidos == SelectSeq([i \in 1..Len(rodada.jogos) |-> i],
                                 LAMBDA i : form[i][1] # "" \/ form[i][2] # "")
    IN [k \in 1..Len(preenchidos) |->
           [id_jogo |-> str(rodada.jogos[preenchidos[k]].id_jogo),
            placar_casa |-> Num(ValorPalpite(form[preenchidos[k]][1])),
            placar_visitante |-> Num(ValorPalpite(form[preenchidos[k]][2]))]]

\* the palpites list built from the form, one entry for each jogo of the round
NovosPalpites(rodada, form) ==
    [i \in 1..Len(rodada.jogos) |->
        [id_jogo |-> str(rodada.jogos[i].id_jogo),
         placar_casa |-> Num(ValorPalpite(form[i][1])),
         placar_visitante |-> Num(ValorPalpite(form[i][2]))]]

FormsPalpite(rodada_id) ==
    IF find_rodada(rodada_id) = {} THEN {<<>>}
    ELSE LET rodada == CHOOSE r \in find_rodada(rodada_id) : TRUE IN
         [1..Len(rodada.jogos) -> CamposPalpite]

\* a bet refused only at the very instant of the deadline
PrazoEncerradoSoNoInstante(rodada) == agora = strptime(rodada.data_limite_apostas)

\* a bet still taken at the instant of the deadline
PrazoEncerradoDepois(rodada) == agora > strptime(rodada.data_limite_apostas)

\* agora >= data_limite_aposta
PrazoEncerrado(rodada) == agora >= strptime(rodada.data_limite_apostas)

\* the entries read before the malformed field stored all the same
salvar_aposta_parcial(usuario_id, rodada_id, form) ==
    /\ UNCHANGED <<agora, rodadas, ranking, proximo_id, entrada, pontos, pc, lido>>
    /\ IF find_rodada(rodada_id) = {}
       THEN /\ resposta' = Resposta("salvar_aposta", rodada_id, "nao encontrada", {})
            /\ UNCHANGED palpites
       ELSE
       LET rodada == CHOOSE r \in find_rodada(rodada_id) : TRUE
           invalidos == {i \in 1..Len(rodada.jogos) :
                            \/ CampoInvalidoPalpite(form[i][1])
                            \/ CampoInvalidoPalpite(form[i][2])}
           lidos == {i \in 1..Len(rodada.jogos) : \A k \in invalidos : i < k}
       IN
       IF PrazoEncerrado(rodada)
       THEN /\ resposta' = Resposta("salvar_aposta", rodada_id, "prazo encerrado", {})
            /\ UNCHANGED palpites
       ELSE IF invalidos # {}
       THEN /\ resposta' = Resposta("salvar_aposta", rodada_id, "nao inteiro", {})
            /\ palpites' = update_one_upsert(palpites, usuario_id, rodada_id, "palpites",
                               [i \in lidos |-> NovosPalpites(rodada, form)[i]])
       ELSE /\ palpites' = update_one_upsert(palpites, usuario_id, rodada_id,
                                             "palpites", NovosPalpites(rodada, form))
            /\ resposta' = Resposta("salvar_aposta", rodada_id, "sucesso", {})

salvar_aposta(usuario_id, rodada_id, form) ==
    /\ UNCHANGED <<agora, rodadas, ranking, proximo_id, entrada, pontos, pc, lido>>
    /\ IF find_rodada(rodada_id) = {}
       THEN /\ resposta' = Resposta("salvar_aposta", rodada_id, "nao encontrada", {})
            /\ UNCHANGED palpites
       ELSE
       LET rodada == CHOOSE r \in find_rodada(rodada_id) : TRUE IN
       IF PrazoEncerrado(rodada)
       THEN /\ resposta' = Resposta("salvar_aposta", rodada_id, "prazo encerrado", {})
            /\ UNCHANGED palpites
       ELSE IF \E i \in 1..Len(rodada.jogos) :
                  \/ CampoInvalidoPalpite(form[i][1])
                  \/ CampoInvalidoPalpite(form[i][2])
       THEN /\ resposta' = Resposta("salvar_aposta", rodada_id, "nao inteiro", {})
            /\ UNCHANGED palpites
       ELSE /\ palpites' = update_one_upsert(palpites, usuario_id, rodada_id,
                                             "palpites", NovosPalpites(rodada, form))
            /\ resposta' = Resposta("salvar_aposta", rodada_id, "sucesso", {})

----------------------------------------------------------------------------
(* placar_admin_salvar *)

CampoVazioPlacar(s) == s = Ausente \/ strip(s) = ""

CampoInvalidoPlacar(s) == ~CampoVazioPlacar(s) /\ ValueError(s)

ValorPlacar(s) == IF CampoVazioPlacar(s) THEN None ELSE Num(int(s))

\* a jogo taken for finalizado with one of its two scores
JogoFinalizadoComUm(jogo, campos) ==
    IF CampoInvalidoPlacar(campos[1]) \/ CampoInvalidoPlacar(campos[2])
    THEN jogo
    ELSE LET placar_casa == ValorPlacar(campos[1])
             placar_visitante == ValorPlacar(campos[2])
         IN [jogo EXCEPT !.placar_casa = placar_casa,
                         !.placar_visitante = placar_visitante,
                         !.finalizado = (placar_casa # None \/ placar_visitante # None)]

\* each score stored as soon as its field is read: the home score of a jogo
\* is already changed when the away field raises
JogoAtualizadoAosPoucos(jogo, campos) ==
    IF CampoInvalidoPlacar(campos[1])
    THEN jogo
    ELSE IF CampoInvalidoPlacar(campos[2])
    THEN [jogo EXCEPT !.placar_casa = ValorPlacar(campos[1])]
    ELSE LET placar_casa == ValorPlacar(campos[1])
             placar_visitante == ValorPlacar(campos[2])
         IN [jogo EXCEPT !.placar_casa = placar_casa,
                         !.placar_visitante = placar_visitante,
                         !.finalizado = (placar_casa # None /\ placar_visitante # None)]

\* one jogo after its two fields are read: left as it was on a ValueError
JogoAtualizado(jogo, campos) ==
    IF CampoInvalidoPlacar(campos[1]) \/ CampoInvalidoPlacar(campos[2])
    THEN jogo
    ELSE LET placar_casa == ValorPlacar(campos[1])
             placar_visitante == ValorPlacar(campos[2])
         IN [jogo EXCEPT !.placar_casa = placar_casa,
                         !.placar_visitante = placar_visitante,
                         !.finalizado = (placar_casa # None /\ placar_visitante # None)]

FormsPlacar(rodada_id) ==
    IF find_rodada(rodada_id) = {} THEN {<<>>}
    ELSE LET rodada == CHOOSE r \in find_rodada(rodada_id) : TRUE IN
         [1..Len(rodada.jogos) -> CamposPlacar]

placar_admin_salvar(rodada_id, form) ==
    /\ UNCHANGED <<agora, palpites, ranking, proximo_id, entrada, pontos, pc, lido>>
    /\ IF find_rodada(rodada_id) = {}
       THEN /\ resposta' = Resposta("placar_admin_salvar", rodada_id, "nao encontrada", {})
            /\ UNCHANGED rodadas
       ELSE
       LET rodada_atual == CHOOSE r \in find_rodada(rodada_id) : TRUE
           jogos_atualizados ==
               [i \in 1..Len(rodada_atual.jogos) |->
                   JogoAtualizado(rodada_atual.jogos[i], form[i])]
       IN /\ rodadas' = update_rodada(rodada_id, "jogos", jogos_atualizados)
          /\ resposta' = Resposta("placar_admin_salvar", rodada_id, "sucesso", {})

----------------------------------------------------------------------------
(* calcular_ranking *)

\* next((j for j in rodada['jogos'] if str(j['id_jogo']) == str(jogo_id)), None)
jogo_oficial(rodada, jogo_id) ==
    LET achados == {i \in 1..Len(rodada.jogos) :
                        str(rodada.jogos[i].id_jogo) = str(jogo_id)}
    IN IF achados = {} THEN None
       ELSE <<rodada.jogos[CHOOSE i \in achados : \A k \in achados : i <= k]>>

\* points of one entry of a palpite: nothing when its jogo is not in the round
PontosDoPalpite(rodada, palpite_jogo) ==
    LET oficial == jogo_oficial(rodada, palpite_jogo.id_jogo) IN
    IF oficial = None THEN 0
    ELSE calcular_pontuacao_jogo(oficial[1].placar_casa,
                                 oficial[1].placar_visitante,
                                 palpite_jogo.placar_casa,
                                 palpite_jogo.placar_visitante)

\* only the first entry of the palpite counted
PontuacaoSoPrimeiro(rodada, entradas) ==
    IF entradas = <<>> THEN 0 ELSE PontosDoPalpite(rodada, Head(entradas))

\* the inner loop: pontuacao_total of one palpite document
RECURSIVE PontuacaoTotal(_, _)
PontuacaoTotal(rodada, entradas) ==
    IF entradas = <<>> THEN 0
    ELSE PontosDoPalpite(rodada, Head(entradas))
         + PontuacaoTotal(rodada, Tail(entradas))

\* a document written for every user, 0 for the ones without a palpite
GravarRankingTodos(coll, rodada, docs) ==
    {d \in coll : d.rodada_id # rodada._id}
    \cup {[usuario_id |-> u, rodada_id |-> rodada._id,
           pontuacao_total |->
               IF \E p \in docs : p.usuario_id = u
               THEN PontuacaoTotal(rodada,
                        (CHOOSE p \in docs : p.usuario_id = u).palpites)
               ELSE 0] : u \in Usuarios}

\* the outer loop: one upsert into ranking_collection for each palpite document
RECURSIVE GravarRanking(_, _, _)
GravarRanking(coll, rodada, docs) ==
    IF docs = {} THEN coll
    ELSE LET palpite == CHOOSE d \in docs : TRUE IN
         GravarRanking(
             update_one_upsert(coll, palpite.usuario_id, rodada._id,
                               "pontuacao_total",
                               PontuacaoTotal(rodada, palpite.palpites)),
             rodada, docs \ {palpite})

\* only the first jogo looked at
PrimeiroNaoFinalizado(rodada) ==
    {i \in {1} : rodada.jogos[i].finalizado = FALSE}

\* [j for j in rodada['jogos'] if j.get('finalizado') == False]
jogos_nao_finalizados(rodada) ==
    {i \in 1..Len(rodada.jogos) : rodada.jogos[i].finalizado = FALSE}

\* the processada flag not looked at
RecusaSemProcessada(achadas) ==
    IF achadas = {} THEN "nao encontrada"
    ELSE LET rodada == CHOOSE r \in achadas : TRUE IN
         IF jogos_nao_finalizados(rodada) # {} THEN "nao finalizada"
         ELSE ""

\* the checks on what find_one returned: the flash message of the refusal,
\* "" when the request goes on
RecusaRodada(achadas) ==
    IF achadas = {} THEN "nao encontrada"
    ELSE LET rodada == CHOOSE r \in achadas : TRUE IN
         IF jogos_nao_finalizados(rodada) # {} THEN "nao finalizada"
         ELSE IF rodada.processada THEN "ja processada"
         ELSE ""

\* an empty list of palpites let through
PalpitesNuncaRecusados(achados) == ""

\* the check on the palpites found for the round
RecusaPalpites(achados) ==
    IF achados = {} THEN "sem palpites" ELSE ""

calcular_ranking(rodada_id) ==
    /\ UNCHANGED <<agora, palpites, proximo_id, entrada, pontos, pc, lido>>
    /\ IF RecusaRodada(find_rodada(rodada_id)) # ""
       THEN /\ resposta' = Resposta("calcular_ranking", rodada_id,
                                    RecusaRodada(find_rodada(rodada_id)), {})
            /\ UNCHANGED <<rodadas, ranking>>
       ELSE IF RecusaPalpites(find_palpites(palpites, rodada_id)) # ""
       THEN /\ resposta' = Resposta("calcular_ranking", rodada_id,
                                    RecusaPalpites(find_palpites(palpites, rodada_id)), {})
            /\ UNCHANGED <<rodadas, ranking>>
       ELSE LET rodada == CHOOSE r \in find_rodada(rodada_id) : TRUE IN
            /\ ranking' = GravarRanking(ranking, rodada,
                                        find_palpites(palpites, rodada_id))
            /\ rodadas' = update_rodada(rodada_id, "processada", TRUE)
            /\ resposta' = Resposta("calcular_ranking", rodada_id, "sucesso", {})

----------------------------------------------------------------------------
(* excluir_rodada *)

\* delete_one in the place of delete_many
delete_one(coll, rodada_id) ==
    IF find_palpites(coll, rodada_id) = {} THEN coll
    ELSE coll \ {CHOOSE d \in find_palpites(coll, rodada_id) : TRUE}

\* delete_many({'rodada_id': rodada_object_id})
delete_many(coll, rodada_id) == {d \in coll : d.rodada_id # rodada_id}

excluir_rodada(rodada_id) ==
    /\ UNCHANGED <<agora, proximo_id, entrada, pontos, pc, lido>>
    /\ IF find_rodada(rodada_id) = {}
       THEN /\ resposta' = Resposta("excluir_rodada", rodada_id, "nao encontrada", {})
            /\ UNCHANGED <<rodadas, palpites, ranking>>
       ELSE /\ rodadas' = rodadas \ find_rodada(rodada_id)
            /\ palpites' = delete_many(palpites, rodada_id)
            /\ ranking' = delete_many(ranking, rodada_id)
            /\ resposta' = Resposta("excluir_rodada", rodada_id, "sucesso", {})

----------------------------------------------------------------------------
(* consulta_palpites *)

\* the view still refused at the instant of the deadline
ConsultaBloqueadaAteOPrazo(rodada) == agora <= strptime(rodada.data_limite_apostas)

\* the comparison the wrong way round
ConsultaBloqueadaDepois(rodada) == agora > strptime(rodada.data_limite_apostas)

\* agora < data_limite_aposta
ConsultaBloqueada(rodada) == agora < strptime(rodada.data_limite_apostas)

consulta_palpites(rodada_id) ==
    /\ UNCHANGED <<agora, rodadas, palpites, ranking, proximo_id,
                   entrada, pontos, pc, lido>>
    /\ IF find_rodada(rodada_id) = {}
       THEN resposta' = Resposta("consulta_palpites", rodada_id, "nao encontrada", {})
       ELSE
       LET rodada == CHOOSE r \in find_rodada(rodada_id) : TRUE IN
       IF ConsultaBloqueada(rodada)
       THEN resposta' = Resposta("consulta_palpites", rodada_id, "indisponivel", {})
       ELSE resposta' = Resposta("consulta_palpites", rodada_id, "",
                                 find_palpites(palpites, rodada_id))

----------------------------------------------------------------------------
(* The application serving one request at a time *)

Next ==
    \/ Tick
    \/ \E form \in FormsRodada : cadastrar_rodada(form)
    \/ \E usuario_id \in Usuarios, rodada_id \in RodadaIds :
          \E form \in FormsPalpite(rodada_id) :
             salvar_aposta(usuario_id, rodada_id, form)
    \/ \E rodada_id \in RodadaIds :
          \E form \in FormsPlacar(rodada_id) : placar_admin_salvar(rodada_id, form)
    \/ \E rodada_id \in RodadaIds : calcular_ranking(rodada_id)
    \/ \E rodada_id \in RodadaIds : excluir_rodada(rodada_id)
    \/ \E rodada_id \in RodadaIds : consulta_palpites(rodada_id)

Spec == Init /\ [][Next]_vars

----------------------------------------------------------------------------
(* The application with the readers that look up the round open for betting *)

\* find_one({'data_limite_apostas': {'$gte': agora_str}}, sort=[('numero', 1)])
\* with agora_str = agora.strftime(DATETIME_FORMAT): texts of this format
\* compare as their minutes do
rodada_aberta(coll) ==
    LET agora_str == strftime(agora)
        abertas == {r \in coll : r.data_limite_apostas >= agora_str}
    IN IF abertas = {} THEN None
       ELSE <<CHOOSE r \in abertas : \A x \in abertas : r.numero <= x.numero>>

\* the helper the templates call
get_proxima_rodada_aberta ==
    /\ UNCHANGED <<agora, rodadas, palpites, ranking, proximo_id,
                   entrada, pontos, pc, lido>>
    /\ LET rodada == rodada_aberta(rodadas) IN
       IF rodada = None
       THEN resposta' = Resposta("get_proxima_rodada_aberta", 0, "nenhuma aberta", {})
       ELSE resposta' = Resposta("get_proxima_rodada_aberta", rodada[1]._id, "", {})

\* the users that are not administrators, in the order of their names
NomesEmOrdem == <<"u1", "u2">>

\* lista_status after its sort: who did not bet first, then by name
lista_status(rodada_id) ==
    LET linha(u) == [usuario |-> u, apostou |-> Chave(palpites, u, rodada_id) # {}]
        linhas == [i \in 1..Len(NomesEmOrdem) |-> linha(NomesEmOrdem[i])]
    IN SelectSeq(linhas, LAMBDA l : ~l.apostou)
       \o SelectSeq(linhas, LAMBDA l : l.apostou)

admin_status_apostas ==
    /\ UNCHANGED <<agora, rodadas, palpites, ranking, proximo_id,
                   entrada, pontos, pc, lido>>
    /\ LET rodada == rodada_aberta(rodadas) IN
       IF rodada = None
       THEN resposta' = Resposta("admin_status_apostas", 0, "nenhuma aberta", {})
       ELSE resposta' = Resposta("admin_status_apostas", rodada[1]._id, "",
                                 lista_status(rodada[1]._id))

NextLeitura ==
    \/ Next
    \/ get_proxima_rodada_aberta
    \/ admin_status_apostas

SpecLeitura == Init /\ [][NextLeitura]_vars

----------------------------------------------------------------------------
(* The same application with forms that also carry the text of a negative   *)
(* number in a score field.                                                 *)

\* the forms of Spec with a 0 to -1 in the place of the blank bet and of the
\* 0-0 result
CamposPalpiteComSinal == (CamposPalpite \ {<<"", "">>}) \cup {<<"0", "-1">>}

CamposPlacarComSinal == (CamposPlacar \ {<<"0", "0">>}) \cup {<<"0", "-1">>}

FormsPalpiteComSinal(rodada_id) ==
    IF find_rodada(rodada_id) = {} THEN {<<>>}
    ELSE LET rodada == CHOOSE r \in find_rodada(rodada_id) : TRUE IN
         [1..Len(rodada.jogos) -> CamposPalpiteComSinal]

FormsPlacarComSinal(rodada_id) ==
    IF find_rodada(rodada_id) = {} THEN {<<>>}
    ELSE LET rodada == CHOOSE r \in find_rodada(rodada_id) : TRUE IN
         [1..Len(rodada.jogos) -> CamposPlacarComSinal]

NextComSinal ==
    \/ Tick
    \/ \E form \in FormsRodada : cadastrar_rodada(form)
    \/ \E usuario_id \in Usuarios, rodada_id \in RodadaIds :
          \E form \in FormsPalpiteComSinal(rodada_id) :
             salvar_aposta(usuario_id, rodada_id, form)
    \/ \E rodada_id \in RodadaIds :
          \E form \in FormsPlacarComSinal(rodada_id) :
             placar_admin_salvar(rodada_id, form)
    \/ \E rodada_id \in RodadaIds : calcular_ranking(rodada_id)
    \/ \E rodada_id \in RodadaIds : excluir_rodada(rodada_id)
    \/ \E rodada_id \in RodadaIds : consulta_palpites(rodada_id)

SpecComSinal == Init /\ [][NextComSinal]_vars

----------------------------------------------------------------------------
(* Two calcular_ranking requests served at the same time: each database     *)
(* call of the handler is a step of its own, the lines between two calls    *)
(* work on the request's locals.                                            *)

Pedidos == {"p1", "p2"}

NadaLido == [rodada |-> {}, palpites |-> {}, restantes |-> {}]

\* database states scoring can meet: a round registered from a form, bets
\* saved before the deadline, results recorded from a form
ApostasDe(rodada, formularios) ==
    {[usuario_id |-> u, rodada_id |-> rodada._id,
      palpites |-> NovosPalpites(rodada, formularios[u])] :
        u \in {v \in Usuarios : formularios[v] # <<>>}}

FormsValidosPalpite(n) ==
    {f \in [1..n -> CamposPalpite] :
        \A i \in 1..n : ~CampoInvalidoPalpite(f[i][1]) /\ ~CampoInvalidoPalpite(f[i][2])}

InitConcorrente ==
    /\ \E linhas \in LinhasJogos :
         LET jogos == NovosJogos(1, linhas)
             rodada == [_id |-> 1, numero |-> 1,
                        data_limite_apostas |-> Minutos["00:01"],
                        jogos |-> jogos, processada |-> FALSE]
         IN /\ jogos # <<>>
            /\ \A i \in 1..Len(linhas) : ~LinhaIncompleta(linhas[i])
            /\ \E placares \in [1..Len(jogos) -> CamposPlacar] :
                 rodadas = {[rodada EXCEPT !.jogos =
                               [i \in 1..Len(jogos) |->
                                   JogoAtualizado(jogos[i], placares[i])]]}
            /\ \E formularios \in
                    [Usuarios -> FormsValidosPalpite(Len(jogos)) \cup {<<>>}] :
                 palpites = ApostasDe(rodada, formularios)
    /\ agora = strptime(Minutos["00:01"])
    /\ ranking = {}
    /\ proximo_id = 2
    /\ resposta = SemResposta
    /\ entrada = <<>>
    /\ pontos = None
    /\ pc = [q \in Pedidos |-> "inicio"]
    /\ lido = [q \in Pedidos |-> NadaLido]

\* the round marked processada by the request that reads it
LerRodadaMarcando(q, rodada_id) ==
    /\ pc[q] = "inicio"
    /\ lido' = [lido EXCEPT ![q].rodada = find_rodada(rodada_id)]
    /\ pc' = [pc EXCEPT ![q] =
                IF RecusaRodada(find_rodada(rodada_id)) # ""
                THEN RecusaRodada(find_rodada(rodada_id))
                ELSE "ler palpites"]
    /\ rodadas' = IF RecusaRodada(find_rodada(rodada_id)) # "" THEN rodadas
                  ELSE update_rodada(rodada_id, "processada", TRUE)
    /\ UNCHANGED <<agora, palpites, ranking, proximo_id, resposta,
                   entrada, pontos>>

\* rodadas_collection.find_one and the checks on what it returned
LerRodada(q, rodada_id) ==
    /\ pc[q] = "inicio"
    /\ lido' = [lido EXCEPT ![q].rodada = find_rodada(rodada_id)]
    /\ pc' = [pc EXCEPT ![q] =
                IF RecusaRodada(find_rodada(rodada_id)) # ""
                THEN RecusaRodada(find_rodada(rodada_id))
                ELSE "ler palpites"]
    /\ UNCHANGED <<agora, rodadas, palpites, ranking, proximo_id, resposta,
                   entrada, pontos>>

\* list(palpites_collection.find(...)) and the check that it is not empty
LerPalpites(q) ==
    /\ pc[q] = "ler palpites"
    /\ LET rodada == CHOOSE r \in lido[q].rodada : TRUE
           achados == find_palpites(palpites, rodada._id)
       IN /\ lido' = [lido EXCEPT ![q].palpites = achados,
                                  ![q].restantes = achados]
          /\ pc' = [pc EXCEPT ![q] = IF RecusaPalpites(achados) # ""
                                     THEN RecusaPalpites(achados)
                                     ELSE "gravar"]
    /\ UNCHANGED <<agora, rodadas, palpites, ranking, proximo_id, resposta,
                   entrada, pontos>>

\* one turn of the loop: ranking_collection.update_one for one palpite
GravarPontuacao(q) ==
    /\ pc[q] = "gravar"
    /\ lido[q].restantes # {}
    /\ LET rodada == CHOOSE r \in lido[q].rodada : TRUE
           palpite == CHOOSE d \in lido[q].restantes : TRUE
       IN /\ ranking' = update_one_upsert(ranking, palpite.usuario_id, rodada._id,
                                          "pontuacao_total",
                                          PontuacaoTotal(rodada, palpite.palpites))
          /\ lido' = [lido EXCEPT ![q].restantes = @ \ {palpite}]
    /\ UNCHANGED <<agora, rodadas, palpites, proximo_id, resposta,
                   entrada, pontos, pc>>

\* rodadas_collection.update_one setting processada, after the loop
MarcarProcessada(q) ==
    /\ pc[q] = "gravar"
    /\ lido[q].restantes = {}
    /\ LET rodada == CHOOSE r \in lido[q].rodada : TRUE IN
       rodadas' = update_rodada(rodada._id, "processada", TRUE)
    /\ pc' = [pc EXCEPT ![q] = "sucesso"]
    /\ UNCHANGED <<agora, palpites, ranking, proximo_id, resposta,
                   entrada, pontos, lido>>

NextConcorrente ==
    \E q \in Pedidos :
        \/ \E rodada_id \in RodadaIds : LerRodada(q, rodada_id)
        \/ LerPalpites(q)
        \/ GravarPontuacao(q)
        \/ MarcarProcessada(q)

SpecConcorrente == InitConcorrente /\ [][NextConcorrente]_vars

----------------------------------------------------------------------------
(* The scoring function on its own: every call with arguments that are     *)
(* absent or an integer in 0..MaxPlacar.                                   *)

MaxPlacar == 2

Placares == {None} \cup {Num(n) : n \in 0..MaxPlacar}

InitPontuacao ==
    /\ entrada \in Placares \X Placares \X Placares \X Placares
    /\ pontos = None
    /\ agora = 0
    /\ rodadas = {}
    /\ palpites = {}
    /\ ranking = {}
    /\ proximo_id = 1
    /\ resposta = SemResposta
    /\ pc = <<>>
    /\ lido = <<>>

Pontuar ==
    /\ pontos = None
    /\ pontos' = Num(calcular_pontuacao_jogo(entrada[1], entrada[2],
                                             entrada[3], entrada[4]))
    /\ UNCHANGED <<agora, rodadas, palpites, ranking, proximo_id, resposta,
                   entrada, pc, lido>>

NextPontuacao == Pontuar

SpecPontuacao == InitPontuacao /\ [][NextPontuacao]_vars


----------------------------------------------------------------------------
(* The ranking view on its own: the aggregation over ranking_collection for *)
(* databases left by rounds that were bet on, closed and scored.            *)

\* '$limit': 50
Limite == 50

MaxApostadores == 52

MaxRodadasRanking == 3

RodadasRanking == 1..MaxRodadasRanking

\* bettors whose ranking documents are drawn freely
ApostadoresLivres == {1, 2}

\* bettors with one ranking document each, of round 1
Multidao(n) == 3..(2 + n)

\* a bettor registered with a blank nome
SemNome == 0

Apostadores == {SemNome} \cup (1..MaxApostadores)

\* usuarios_collection: nome is the list of the words of the name
usuarios_collection ==
    {[_id |-> u, nome |-> IF u = SemNome THEN <<>> ELSE <<u, "Silva">>] :
        u \in Apostadores}

\* nome.split()[0] raises IndexError for a nome without a word
IndexError(nome) == nome = <<>>

primeiro_nome(nome) == nome[1]

\* pontuacao_total a round with one jogo, ended 0-0, gives for a bet
TotaisRodada == {0, 5, 10}

ApostaDe(total) ==
    IF total = 10 THEN <<"0", "0">>
    ELSE IF total = 5 THEN <<"1", "1">>
    ELSE <<"1", "0">>

TotalDaMultidao(u) == 5 * (u % 3)

\* the rounds, each registered with one jogo and recorded as 0-0
RodadasPontuadas ==
    {[_id |-> r, numero |-> r, data_limite_apostas |-> Minutos["00:01"],
      jogos |-> [i \in {1} |-> JogoAtualizado(NovosJogos(r, << <<"t1", "t2">> >>)[1],
                                              <<"0", "0">>)],
      processada |-> TRUE] : r \in RodadasRanking}

\* totais[u][r] is the total of bettor u in round r, None without a bet
ApostasFeitas(totais) ==
    {[usuario_id |-> u, rodada_id |-> r,
      palpites |-> NovosPalpites(CHOOSE x \in RodadasPontuadas : x._id = r,
                                 <<ApostaDe(Val(totais[u][r]))>>)] :
        <<u, r>> \in {ur \in (DOMAIN totais) \X RodadasRanking :
                         totais[ur[1]][ur[2]] # None}}

InitRanking ==
    /\ \E livres \in [ApostadoresLivres ->
                        [RodadasRanking -> {None} \cup {Num(t) : t \in TotaisRodada}]],
          n \in {0, MaxApostadores - 2},
          sem_nome \in BOOLEAN :
          /\ n = 0 \/ \A r \in RodadasRanking \ {1} : livres[2][r] = None
          /\ LET multidao == [u \in Multidao(n) |->
                                [r \in RodadasRanking |->
                                    IF r = 1 THEN Num(TotalDaMultidao(u)) ELSE None]]
                 anonimo == [u \in (IF sem_nome THEN {SemNome} ELSE {}) |->
                                [r \in RodadasRanking |->
                                    IF r = 1 THEN Num(10) ELSE None]]
                 totais == livres @@ multidao @@ anonimo
             IN /\ palpites = ApostasFeitas(totais)
                /\ ranking = {[usuario_id |-> p.usuario_id, rodada_id |-> p.rodada_id,
                               pontuacao_total |->
                                   PontuacaoTotal(CHOOSE x \in RodadasPontuadas :
                                                      x._id = p.rodada_id, p.palpites)] :
                                 p \in ApostasFeitas(totais)}
    /\ rodadas = RodadasPontuadas
    /\ agora = strptime(Minutos["00:01"])
    /\ proximo_id = MaxRodadasRanking + 1
    /\ resposta = SemResposta
    /\ entrada = <<>>
    /\ pontos = None
    /\ pc = <<>>
    /\ lido = <<>>

\* '$max' in the place of '$sum'
MaiorTotal(docs) ==
    LET d == CHOOSE x \in docs : \A y \in docs : x.pontuacao_total >= y.pontuacao_total
    IN d.pontuacao_total

\* {'$sum': '$pontuacao_total'} over the documents of one group
RECURSIVE SomaTotais(_)
SomaTotais(docs) ==
    IF docs = {} THEN 0
    ELSE LET d == CHOOSE x \in docs : TRUE IN
         d.pontuacao_total + SomaTotais(docs \ {d})

\* '$group' by usuario_id
Agrupar(coll) ==
    {[_id |-> u, pontuacao_total |-> SomaTotais({d \in coll : d.usuario_id = u})] :
        u \in {d.usuario_id : d \in coll}}

\* '$sort': {'pontuacao_total': -1}; groups of equal total come in an order
\* the database chooses
RECURSIVE Ordenar(_)
Ordenar(grupos) ==
    IF grupos = {} THEN <<>>
    ELSE LET g == CHOOSE x \in grupos :
                      \A y \in grupos : x.pontuacao_total >= y.pontuacao_total
         IN <<g>> \o Ordenar(grupos \ {g})

\* '$limit'
Limitar(docs, n) == SubSeq(docs, 1, IF Len(docs) < n THEN Len(docs) ELSE n)

ranking_geral(coll) == Limitar(Ordenar(Agrupar(coll)), Limite)

find_usuario(usuario_id) == {u \in usuarios_collection : u._id = usuario_id}

\* the loop over ranking_geral: a rank whose user is not found is left out
RECURSIVE ranking_final(_)
ranking_final(geral) ==
    IF geral = <<>> THEN <<>>
    ELSE LET achados == find_usuario(Head(geral)._id) IN
         (IF achados = {} THEN <<>>
          ELSE LET usuario == CHOOSE u \in achados : TRUE IN
               <<[usuario |-> primeiro_nome(usuario.nome),
                  pontuacao |-> Head(geral).pontuacao_total]>>)
         \o ranking_final(Tail(geral))

\* the view: the request fails when a nome of the ranking has no word
exibir_ranking ==
    /\ UNCHANGED <<agora, rodadas, palpites, ranking, proximo_id,
                   entrada, pontos, pc, lido>>
    /\ LET geral == ranking_geral(ranking) IN
       IF \E i \in 1..Len(geral) : \E u \in find_usuario(geral[i]._id) :
              IndexError(u.nome)
       THEN resposta' = Resposta("ranking", 0, "erro interno", <<>>)
       ELSE resposta' = Resposta("ranking", 0, "", ranking_final(geral))

NextRanking == exibir_ranking

SpecRanking == InitRanking /\ [][NextRanking]_vars

----------------------------------------------------------------------------
(* Properties of calcular_pontuacao_jogo, under SpecPontuacao *)

Chamada == pontos # None

TodosPresentes == \A i \in 1..4 : entrada[i] # None

PlacarExato == entrada[1] = entrada[3] /\ entrada[2] = entrada[4]

\* sign of a difference: +1, 0 or -1
Sinal(n) == IF n > 0 THEN 1 ELSE IF n < 0 THEN -1 ELSE 0

MesmoSinal ==
    Sinal(Val(entrada[1]) - Val(entrada[2])) = Sinal(Val(entrada[3]) - Val(entrada[4]))

\* C8: when all four scores are present and the predicted pair equals the
\* official pair, calcular_pontuacao_jogo returns 10.
C8_PlacarExatoDez ==
    (Chamada /\ TodosPresentes /\ PlacarExato) => pontos = Num(10)

C8_Witness ==
    /\ entrada = <<Num(2), Num(1), Num(2), Num(1)>>
    /\ pontos = Num(10)

\* C9: when all four scores are present, the pairs are not equal and the sign
\* of official home minus away equals the sign of predicted home minus away,
\* calcular_pontuacao_jogo returns 5.
C9_MesmoSinalCinco ==
    (Chamada /\ TodosPresentes /\ ~PlacarExato /\ MesmoSinal) => pontos = Num(5)

C9_Witness ==
    /\ entrada = <<Num(2), Num(0), Num(1), Num(0)>>
    /\ pontos = Num(5)

\* C10: in every other case, and whenever one of the four scores is absent,
\* calcular_pontuacao_jogo returns 0; it never returns anything but 0, 5, 10.
C10_DemaisZero ==
    Chamada =>
        /\ pontos \in {Num(0), Num(5), Num(10)}
        /\ ~TodosPresentes => pontos = Num(0)
        /\ (TodosPresentes /\ ~PlacarExato /\ ~MesmoSinal) => pontos = Num(0)

C10_Witness ==
    /\ entrada = <<Num(1), None, Num(1), None>>
    /\ pontos = Num(0)

\* the call with home and away swapped on both pairs
Trocada == <<entrada[2], entrada[1], entrada[4], entrada[3]>>

\* C11: swapping home and away on both the official and the predicted pair
\* does not change the score: the points returned for <<oh, oa, ph, pa>> are
\* the points of <<oa, oh, pa, ph>>, absent values included.
C11_TrocaDeMando ==
    Chamada =>
        pontos = Num(calcular_pontuacao_jogo(Trocada[1], Trocada[2],
                                             Trocada[3], Trocada[4]))

C11_Witness ==
    /\ entrada = <<Num(2), Num(0), Num(1), Num(0)>>
    /\ Trocada = <<Num(0), Num(2), Num(0), Num(1)>>
    /\ pontos = Num(5)

----------------------------------------------------------------------------
(* Properties of the ranking view, under SpecRanking *)

Classificados == {d.usuario_id : d \in ranking}

\* total of a bettor over the rounds 1..n
RECURSIVE TotalAte(_, _)
TotalAte(usuario_id, n) ==
    IF n = 0 THEN 0
    ELSE TotalAte(usuario_id, n - 1)
         + (IF Chave(ranking, usuario_id, n) = {} THEN 0
            ELSE (CHOOSE d \in Chave(ranking, usuario_id, n) : TRUE).pontuacao_total)

TotalGeral(usuario_id) == TotalAte(usuario_id, MaxRodadasRanking)

\* the line of the page is that of this bettor
LinhaDe(linha, usuario_id) ==
    \E u \in find_usuario(usuario_id) : u.nome # <<>> /\ u.nome[1] = linha.usuario

RankingExibido == resposta.rota = "ranking" /\ resposta.flash = ""

\* C15: the page of the ranking view has at most 50 lines, in non-increasing
\* order of pontuacao; each line is that of one bettor with ranking documents
\* and shows the sum of the pontuacao_total of the documents of that bettor
\* over all rounds; no bettor has two lines, and the bettors left out are the
\* ones beyond the 50th, none with more than the last line.
C15_RankingGeral ==
    RankingExibido =>
        LET pagina == resposta.pagina IN
        /\ Len(pagina) <= 50
        /\ \A i \in 1..(Len(pagina) - 1) :
               pagina[i].pontuacao >= pagina[i + 1].pontuacao
        /\ \A i \in 1..Len(pagina) :
               \E u \in Classificados :
                   LinhaDe(pagina[i], u) /\ pagina[i].pontuacao = TotalGeral(u)
        /\ \A i, j \in 1..Len(pagina) :
               i # j => pagina[i].usuario # pagina[j].usuario
        /\ Len(pagina) = IF Cardinality(Classificados) < 50
                         THEN Cardinality(Classificados) ELSE 50
        /\ \A u \in Classificados :
               (\A i \in 1..Len(pagina) : ~LinhaDe(pagina[i], u))
               => TotalGeral(u) <= pagina[Len(pagina)].pontuacao

\* more than 50 bettors ranked, 50 lines shown; bettor 1 has 5, 10 and 0 in the three
\* rounds and a line with 15
C15_Witness ==
    /\ RankingExibido
    /\ Cardinality(Classificados) > 50
    /\ Len(resposta.pagina) = 50
    /\ \E d1 \in Chave(ranking, 1, 1), d2 \in Chave(ranking, 1, 2),
          d3 \in Chave(ranking, 1, 3) :
           /\ d1.pontuacao_total = 5
           /\ d2.pontuacao_total = 10
           /\ d3.pontuacao_total = 0
    /\ \E i \in 1..Len(resposta.pagina) :
           /\ LinhaDe(resposta.pagina[i], 1)
           /\ resposta.pagina[i].pontuacao = 15

----------------------------------------------------------------------------
(* Properties of the round lifecycle, under Spec *)

Banco == <<rodadas, palpites, ranking>>

Existe(rodada_id) == find_rodada(rodada_id) # {}

Rodada(rodada_id) == CHOOSE r \in rodadas : r._id = rodada_id

TodosFinalizados(r) == \A i \in 1..Len(r.jogos) : r.jogos[i].finalizado

\* instant of the deadline of a round
Prazo(r) == r.data_limite_apostas * TicksPorMinuto

\* points of entry e of a palpite against the matches of round r
PontosEsperados(r, e) ==
    LET js == {j \in 1..Len(r.jogos) : str(r.jogos[j].id_jogo) = e.id_jogo} IN
    IF js = {} THEN 0
    ELSE LET j == CHOOSE k \in js : TRUE IN
         calcular_pontuacao_jogo(r.jogos[j].placar_casa, r.jogos[j].placar_visitante,
                                 e.placar_casa, e.placar_visitante)

RECURSIVE SomaEsperada(_, _, _)
SomaEsperada(r, p, n) ==
    IF n = 0 THEN 0
    ELSE SomaEsperada(r, p, n - 1) + PontosEsperados(r, p.palpites[n])

\* the step serves a request of this route for this round
Atende(rota, rodada_id) == resposta'.rota = rota /\ resposta'.rodada = rodada_id

Pontuou(rodada_id) == resposta = Resposta("calcular_ranking", rodada_id, "sucesso", {})

\* C1: right after calcular_ranking succeeded on a round, the round is
\* processada and every palpite of the round has a ranking document of its
\* user and round whose pontuacao_total is the sum, over the entries of the
\* palpite, of the points of the entry against the official score of the jogo
\* with its id (0 for an entry whose id is no jogo of the round).
C1_PontuacaoGravada ==
    \A rodada_id \in RodadaIds :
        Pontuou(rodada_id) =>
            /\ Existe(rodada_id)
            /\ Rodada(rodada_id).processada
            /\ \A p \in find_palpites(palpites, rodada_id) :
                   \E d \in ranking :
                       /\ d.usuario_id = p.usuario_id
                       /\ d.rodada_id = rodada_id
                       /\ d.pontuacao_total =
                              SomaEsperada(Rodada(rodada_id), p, Len(p.palpites))

C1_Witness ==
    \E rodada_id \in RodadaIds :
        /\ Pontuou(rodada_id)
        /\ Len(Rodada(rodada_id).jogos) = 2
        /\ \E d1, d2 \in ranking :
               /\ d1.rodada_id = rodada_id /\ d2.rodada_id = rodada_id
               /\ d1.usuario_id # d2.usuario_id
               /\ d1.pontuacao_total = 15
               /\ d2.pontuacao_total = 20

\* C2: a calcular_ranking request for a round that is already processada is
\* refused and changes no round, no palpite and no ranking document.
C2_JaProcessadaRecusada ==
    [][\A rodada_id \in RodadaIds :
          (Atende("calcular_ranking", rodada_id) /\ calcular_ranking(rodada_id)
             /\ Existe(rodada_id) /\ Rodada(rodada_id).processada)
          => /\ resposta'.flash \in {"ja processada", "nao finalizada"}
             /\ UNCHANGED Banco]_vars

\* a second request refused although the results recorded since the first
\* one would give another total
C2_Witness ==
    \E rodada_id \in RodadaIds :
        /\ resposta = Resposta("calcular_ranking", rodada_id, "ja processada", {})
        /\ Rodada(rodada_id).processada
        /\ \E p \in find_palpites(palpites, rodada_id), d \in ranking :
               /\ d.usuario_id = p.usuario_id
               /\ d.rodada_id = rodada_id
               /\ d.pontuacao_total #
                      SomaEsperada(Rodada(rodada_id), p, Len(p.palpites))

PreCondicaoViolada(rodada_id) ==
    \/ ~Existe(rodada_id)
    \/ ~TodosFinalizados(Rodada(rodada_id))
    \/ Rodada(rodada_id).processada

\* C3: a calcular_ranking request for a round that does not exist, has a jogo
\* that is not finalizado, or is already processada is refused and changes no
\* round, no palpite and no ranking document.
C3_PreCondicoes ==
    [][\A rodada_id \in RodadaIds :
          (Atende("calcular_ranking", rodada_id) /\ calcular_ranking(rodada_id)
             /\ PreCondicaoViolada(rodada_id))
          => /\ resposta'.flash \in {"nao encontrada", "nao finalizada", "ja processada"}
             /\ UNCHANGED Banco]_vars

\* past the deadline, one jogo with a result and one without, bets stored:
\* refused, nothing in ranking
C3_Witness ==
    \E rodada_id \in RodadaIds :
        /\ resposta = Resposta("calcular_ranking", rodada_id, "nao finalizada", {})
        /\ agora > Prazo(Rodada(rodada_id))
        /\ Len(Rodada(rodada_id).jogos) = 2
        /\ Rodada(rodada_id).jogos[1].finalizado
        /\ ~Rodada(rodada_id).jogos[2].finalizado
        /\ find_palpites(palpites, rodada_id) # {}
        /\ ranking = {}

\* C5: a salvar_aposta request at or after the deadline of its round is
\* refused and changes no palpite; a palpite document is inserted or changed
\* only by a step taken before the deadline of its round.
C5_PrazoFechaApostas ==
    [][/\ \A usuario_id \in Usuarios, rodada_id \in RodadaIds :
            (/\ Atende("salvar_aposta", rodada_id)
             /\ Existe(rodada_id) /\ agora >= Prazo(Rodada(rodada_id))
             /\ \E form \in FormsPalpite(rodada_id) :
                    salvar_aposta(usuario_id, rodada_id, form))
            => /\ resposta'.flash = "prazo encerrado"
               /\ UNCHANGED Banco
       /\ \A p \in palpites' \ palpites :
            /\ Existe(p.rodada_id)
            /\ agora < Prazo(Rodada(p.rodada_id))]_vars

\* refused at the very instant of the deadline, with the bets of both users
\* stored before
C5_Witness ==
    \E rodada_id \in RodadaIds :
        /\ resposta = Resposta("salvar_aposta", rodada_id, "prazo encerrado", {})
        /\ agora = Prazo(Rodada(rodada_id))
        /\ \A u \in Usuarios : Chave(palpites, u, rodada_id) # {}

Mostrou == resposta'.flash = ""

Recusou == resposta'.flash = "indisponivel" /\ resposta'.pagina = {}

\* C6 as claimed: consulta_palpites shows the palpites of a round only when
\* the current time is strictly after the deadline, and refuses, showing
\* none, at any time up to and including the deadline.
C6_SoDepoisDoPrazo ==
    [][\A rodada_id \in RodadaIds :
          (Atende("consulta_palpites", rodada_id) /\ consulta_palpites(rodada_id)
             /\ Existe(rodada_id))
          => /\ Mostrou => agora > Prazo(Rodada(rodada_id))
             /\ agora <= Prazo(Rodada(rodada_id)) => Recusou]_vars

\* C6 as amended: consulta_palpites shows the palpites of a round exactly
\* when the current time is at or after the deadline (the palpites stored for
\* that round), and refuses, showing none, at any time before the deadline.
C6_APartirDoPrazo ==
    [][\A rodada_id \in RodadaIds :
          (Atende("consulta_palpites", rodada_id) /\ consulta_palpites(rodada_id)
             /\ Existe(rodada_id))
          => /\ Mostrou <=> agora >= Prazo(Rodada(rodada_id))
             /\ Mostrou => resposta'.pagina = find_palpites(palpites, rodada_id)
             /\ agora < Prazo(Rodada(rodada_id)) => Recusou]_vars

\* the palpites of both users shown at the very instant of the deadline
C6_Witness ==
    \E rodada_id \in RodadaIds :
        /\ resposta.rota = "consulta_palpites"
        /\ resposta.rodada = rodada_id
        /\ resposta.flash = ""
        /\ Existe(rodada_id)
        /\ agora = Prazo(Rodada(rodada_id))
        /\ Cardinality(resposta.pagina) = 2

\* C7: a calcular_ranking request for a round with every jogo finalizado,
\* processada false and no palpite is answered "no palpites" and changes
\* nothing: no ranking document, processada still false.
C7_SemPalpites ==
    [][\A rodada_id \in RodadaIds :
          (Atende("calcular_ranking", rodada_id) /\ calcular_ranking(rodada_id)
             /\ Existe(rodada_id)
             /\ TodosFinalizados(Rodada(rodada_id))
             /\ ~Rodada(rodada_id).processada
             /\ find_palpites(palpites, rodada_id) = {})
          => /\ resposta'.flash = "sem palpites"
             /\ UNCHANGED Banco
             /\ ~Rodada(rodada_id).processada']_vars

C7_Witness ==
    \E rodada_id \in RodadaIds :
        /\ resposta = Resposta("calcular_ranking", rodada_id, "sem palpites", {})
        /\ TodosFinalizados(Rodada(rodada_id))
        /\ Len(Rodada(rodada_id).jogos) = 2
        /\ ~Rodada(rodada_id).processada
        /\ ranking = {}

\* C12: serving one request at a time, there is at most one palpite document
\* for each user and round, and after a salvar_aposta that succeeded the
\* document of that user and round holds exactly the list built from the
\* form of this request: nothing of an earlier list is left in it.
C12_UmPalpitePorRodada ==
    [][/\ \A usuario_id \in Usuarios, rodada_id \in RodadaIds :
             Cardinality(Chave(palpites', usuario_id, rodada_id)) <= 1
       /\ \A rodada_id \in RodadaIds :
             (Atende("salvar_aposta", rodada_id) /\ resposta'.flash = "sucesso")
             => \A usuario_id \in Usuarios : \A form \in FormsPalpite(rodada_id) :
                    salvar_aposta(usuario_id, rodada_id, form)
                    => \A p \in Chave(palpites', usuario_id, rodada_id) :
                           p.palpites = NovosPalpites(Rodada(rodada_id), form)]_vars

\* a bet saved again after the round was scored on the earlier one: the total
\* of 20 is that of two exact scores, the list now stored has none
C12_Witness ==
    \E rodada_id \in RodadaIds :
        /\ resposta = Resposta("salvar_aposta", rodada_id, "sucesso", {})
        /\ \E d \in Chave(ranking, "u1", rodada_id) : d.pontuacao_total = 20
        /\ \E p \in Chave(palpites, "u1", rodada_id) :
               /\ Len(p.palpites) = 2
               /\ \A i \in 1..2 : p.palpites[i].placar_casa = Num(1)
        /\ Cardinality(Chave(palpites, "u1", rodada_id)) = 1

\* C13: in every reachable state every jogo of every round is finalizado
\* exactly when both of its official scores are present, whatever rounds were
\* registered and whatever result forms were sent, blank and malformed fields
\* included.
C13_FinalizadoSeAmbos ==
    \A r \in rodadas : \A i \in 1..Len(r.jogos) :
        r.jogos[i].finalizado
            <=> (r.jogos[i].placar_casa # None /\ r.jogos[i].placar_visitante # None)

\* a result form with one jogo complete and one with a blank home field
C13_Witness ==
    \E r \in rodadas :
        /\ resposta = Resposta("placar_admin_salvar", r._id, "sucesso", {})
        /\ Len(r.jogos) = 2
        /\ r.jogos[1].finalizado /\ r.jogos[1].placar_casa = Num(0)
        /\ ~r.jogos[2].finalizado
        /\ r.jogos[2].placar_casa = None /\ r.jogos[2].placar_visitante = Num(1)

\* the round with this id after the step
RodadaDepois(rodada_id) == CHOOSE r \in rodadas' : r._id = rodada_id

\* C14: in a placar_admin_salvar request a jogo with a field that is not
\* blank and not the text of an integer keeps the home score, the away score
\* and the finalizado flag it had, and every other jogo of the round gets the
\* scores of its own two fields (no score for a blank field).
C14_CampoInvalidoMantem ==
    [][\A rodada_id \in RodadaIds :
          (Atende("placar_admin_salvar", rodada_id) /\ Existe(rodada_id))
          => \A form \in FormsPlacar(rodada_id) :
                 placar_admin_salvar(rodada_id, form)
                 => \A i \in 1..Len(Rodada(rodada_id).jogos) :
                        LET antes == Rodada(rodada_id).jogos[i]
                            depois == RodadaDepois(rodada_id).jogos[i]
                        IN IF \E k \in 1..2 : CampoInvalidoPlacar(form[i][k])
                           THEN /\ depois.placar_casa = antes.placar_casa
                                /\ depois.placar_visitante = antes.placar_visitante
                                /\ depois.finalizado = antes.finalizado
                           ELSE /\ depois.placar_casa = ValorPlacar(form[i][1])
                                /\ depois.placar_visitante = ValorPlacar(form[i][2])]_vars

\* the second jogo was sent a malformed away field and keeps its 0-0, the
\* first was sent a blank home field and lost its home score
C14_Witness ==
    \E r \in rodadas :
        /\ resposta = Resposta("placar_admin_salvar", r._id, "sucesso", {})
        /\ Len(r.jogos) = 2
        /\ r.jogos[1].placar_casa = None /\ r.jogos[1].placar_visitante = Num(1)
        /\ r.jogos[2].placar_casa = Num(0) /\ r.jogos[2].placar_visitante = Num(0)
        /\ r.jogos[2].finalizado
        /\ r.processada

\* C16: in every reachable state a ranking document of a user and a round
\* is there only if that user has a palpite document of that round: scoring
\* writes nothing, not even a total of 0, for a user who did not bet.
C16_RankingSoDeQuemApostou ==
    \A d \in ranking : Chave(palpites, d.usuario_id, d.rodada_id) # {}

\* a round scored with a bet of u1 and none of u2
C16_Witness ==
    \E rodada_id \in RodadaIds :
        /\ Pontuou(rodada_id)
        /\ Chave(palpites, "u1", rodada_id) # {}
        /\ Chave(ranking, "u1", rodada_id) # {}
        /\ Chave(palpites, "u2", rodada_id) = {}
        /\ Chave(ranking, "u2", rodada_id) = {}

\* C17: after an excluir_rodada that succeeded no palpite document and no
\* ranking document of that round is left, and a step that makes the ranking
\* document of some user and round disappear is an excluir_rodada of that
\* round that succeeded.
C17_ExclusaoEmCascata ==
    [][/\ \A rodada_id \in RodadaIds :
             resposta' = Resposta("excluir_rodada", rodada_id, "sucesso", {})
             => /\ find_rodada(rodada_id)' = {}
                /\ find_palpites(palpites', rodada_id) = {}
                /\ find_palpites(ranking', rodada_id) = {}
       /\ \A d \in ranking :
             Chave(ranking', d.usuario_id, d.rodada_id) = {}
             => resposta' = Resposta("excluir_rodada", d.rodada_id, "sucesso", {})]_vars

\* a round deleted after its deadline, nothing of it left
C17_Witness ==
    \E rodada_id \in RodadaIds :
        /\ resposta = Resposta("excluir_rodada", rodada_id, "sucesso", {})
        /\ proximo_id > rodada_id
        /\ ~Existe(rodada_id)
        /\ find_palpites(palpites, rodada_id) = {}
        /\ find_palpites(ranking, rodada_id) = {}
        /\ agora = MaxAgora

\* C18: a round that is processada is processada after every step that
\* leaves it in the database.
C18_ProcessadaNaoVolta ==
    [][\A r \in rodadas : \A depois \in rodadas' :
          (r.processada /\ depois._id = r._id) => depois.processada]_vars

\* results written again after the scoring: a jogo lost its score and the
\* round is still processada
C18_Witness ==
    \E r \in rodadas :
        /\ resposta = Resposta("placar_admin_salvar", r._id, "sucesso", {})
        /\ r.processada
        /\ \E i \in 1..Len(r.jogos) : ~r.jogos[i].finalizado

\* C19: a round is scored only once it is closed for betting: whenever a
\* round is processada, the clock is at or past the deadline of the round.
C19_PontuadaSoDepoisDoPrazo ==
    \A r \in rodadas : r.processada => agora >= Prazo(r)

NaoNegativo(placar) == placar = None \/ Val(placar) >= 0

\* C20: every score the database holds, of a jogo or of an entry of a
\* palpite, is absent or an integer that is not negative.
C20_PlacaresNaoNegativos ==
    /\ \A r \in rodadas : \A i \in 1..Len(r.jogos) :
           /\ NaoNegativo(r.jogos[i].placar_casa)
           /\ NaoNegativo(r.jogos[i].placar_visitante)
    /\ \A p \in palpites : \A i \in 1..Len(p.palpites) :
           /\ NaoNegativo(p.palpites[i].placar_casa)
           /\ NaoNegativo(p.palpites[i].placar_visitante)

\* a round scored on an official 0 to -1 and a bet of 0 to -1: 10 points
C20_Witness ==
    \E r \in rodadas :
        /\ Pontuou(r._id)
        /\ Len(r.jogos) = 1
        /\ r.jogos[1].placar_visitante = Num(-1)
        /\ \E p \in Chave(palpites, "u1", r._id) :
               p.palpites[1].placar_visitante = Num(-1)
        /\ \E d \in Chave(ranking, "u1", r._id) : d.pontuacao_total = 10

\* C21: in every reachable state every palpite document belongs to a stored
\* round and its list has exactly one entry for each jogo of that round,
\* found by the id of the jogo: no jogo without an entry, no jogo with two,
\* no entry whose id is not that of a jogo of the round.
C21_UmaEntradaPorJogo ==
    \A p \in palpites :
        /\ Existe(p.rodada_id)
        /\ \A j \in 1..Len(Rodada(p.rodada_id).jogos) :
               Cardinality({i \in 1..Len(p.palpites) :
                   p.palpites[i].id_jogo = str(Rodada(p.rodada_id).jogos[j].id_jogo)}) = 1
        /\ \A i \in 1..Len(p.palpites) :
               \E j \in 1..Len(Rodada(p.rodada_id).jogos) :
                   p.palpites[i].id_jogo = str(Rodada(p.rodada_id).jogos[j].id_jogo)

\* a bet on a round of two jogos, one filled in and one left blank, kept
\* while the results of the round were written
C21_Witness ==
    \E p \in palpites :
        /\ Existe(p.rodada_id)
        /\ Len(Rodada(p.rodada_id).jogos) = 2
        /\ Len(p.palpites) = 2
        /\ p.palpites[1].placar_casa = Num(1)
        /\ p.palpites[2].placar_casa = Num(0)
        /\ resposta = Resposta("placar_admin_salvar", p.rodada_id, "sucesso", {})

\* C22: in every reachable state every jogo of every stored round has a home
\* team that is not its away team.
C22_TimesDistintos ==
    \A r \in rodadas : \A i \in 1..Len(r.jogos) :
        r.jogos[i].time_casa_id # r.jogos[i].time_visitante_id

\* C23: no step changes the deadline of a round that stays in the database,
\* and the clock never goes back, so a round that is at or past its deadline
\* stays so; salvar_aposta refuses for the deadline only at or past it, and
\* at or past it always refuses: after one refusal for the deadline every
\* later salvar_aposta of that round is refused too.
C23_PrazoNaoVolta ==
    [][/\ agora' >= agora
       /\ \A r \in rodadas : \A depois \in rodadas' :
             depois._id = r._id
             => /\ depois.data_limite_apostas = r.data_limite_apostas
                /\ agora >= Prazo(r) => agora' >= Prazo(depois)
       /\ \A rodada_id \in RodadaIds :
             (Atende("salvar_aposta", rodada_id) /\ agora' = agora
                /\ Existe(rodada_id))
             => (resposta'.flash = "prazo encerrado"
                    <=> agora >= Prazo(Rodada(rodada_id)))]_vars

\* a second refusal, later than the deadline, the bets of before still there
C23_Witness ==
    \E rodada_id \in RodadaIds :
        /\ resposta = Resposta("salvar_aposta", rodada_id, "prazo encerrado", {})
        /\ Existe(rodada_id)
        /\ agora > Prazo(Rodada(rodada_id))
        /\ find_palpites(palpites, rodada_id) # {}

\* C24: in every reachable state, for every round that is processada and
\* every palpite document of that round, there is a ranking document of that
\* user and round whose pontuacao_total is the sum of the points of the
\* entries now stored against the official scores now stored.
C24_PontuacaoEmDia ==
    \A r \in rodadas :
        r.processada
        => \A p \in find_palpites(palpites, r._id) :
               \E d \in Chave(ranking, p.usuario_id, r._id) :
                   d.pontuacao_total = SomaEsperada(r, p, Len(p.palpites))

\* C25: in every reachable state every jogo of a round that is processada
\* is finalizado.
C25_ProcessadaTodaFinalizada ==
    \A r \in rodadas : r.processada => TodosFinalizados(r)

\* C27: for every stored round and every instant exactly one of the two
\* is open: a salvar_aposta request is let through by the deadline check
\* exactly when consulta_palpites would refuse at that instant, and a
\* consulta_palpites request shows the palpites exactly when salvar_aposta
\* would refuse for the deadline at that instant.
C27_ApostaOuConsulta ==
    [][\A rodada_id \in RodadaIds :
          (Existe(rodada_id) /\ agora' = agora)
          => /\ Atende("salvar_aposta", rodada_id)
                => (resposta'.flash # "prazo encerrado"
                       <=> ConsultaBloqueada(Rodada(rodada_id)))
             /\ Atende("consulta_palpites", rodada_id)
                => (resposta'.flash = ""
                       <=> PrazoEncerrado(Rodada(rodada_id)))]_vars

\* a bet taken at the last instant before the deadline, when the view of
\* the bet of the other user is still refused
C27_Witness ==
    \E rodada_id \in RodadaIds :
        /\ resposta = Resposta("salvar_aposta", rodada_id, "sucesso", {})
        /\ Existe(rodada_id)
        /\ agora + 1 = Prazo(Rodada(rodada_id))
        /\ Cardinality(find_palpites(palpites, rodada_id)) = 2

\* a field of a form left blank or not sent
EmBranco(s) == s = Ausente \/ strip(s) = ""

\* C28: a jogo whose two fields were left blank in a bet that was saved
\* counts as not bet on: the entry stored for it gets 0 points from
\* calcular_pontuacao_jogo against every official score.
C28_BrancoSemPontos ==
    [][\A rodada_id \in RodadaIds :
          (Atende("salvar_aposta", rodada_id) /\ resposta'.flash = "sucesso"
             /\ Existe(rodada_id))
          => \A usuario_id \in Usuarios : \A form \in FormsPalpite(rodada_id) :
                 salvar_aposta(usuario_id, rodada_id, form)
                 => \A p \in Chave(palpites', usuario_id, rodada_id) :
                    \A i \in 1..Len(Rodada(rodada_id).jogos) :
                        (EmBranco(form[i][1]) /\ EmBranco(form[i][2]))
                        => \A oficial_casa, oficial_visitante \in Placares :
                               calcular_pontuacao_jogo(
                                   oficial_casa, oficial_visitante,
                                   p.palpites[i].placar_casa,
                                   p.palpites[i].placar_visitante) = 0]_vars

\* a round of one jogo scored on an official 0-0: the entry 0-0, which the
\* forms of Spec store only for blank fields, has brought 10 points
C28_Witness ==
    \E r \in rodadas :
        /\ Pontuou(r._id)
        /\ Len(r.jogos) = 1
        /\ r.jogos[1].placar_casa = Num(0) /\ r.jogos[1].placar_visitante = Num(0)
        /\ \E p \in Chave(palpites, "u2", r._id) :
               /\ p.palpites[1].placar_casa = Num(0)
               /\ p.palpites[1].placar_visitante = Num(0)
        /\ \E d \in Chave(ranking, "u2", r._id) : d.pontuacao_total = 10

\* C29: a salvar_aposta request whose form has, for some jogo, a field that
\* is not blank and not the text of an integer is refused and changes
\* nothing: the palpite document of the user for the round, or its absence,
\* is what it was, also for the jogos whose fields were well formed.
C29_MalformadoRecusaTudo ==
    [][\A rodada_id \in RodadaIds :
          (Atende("salvar_aposta", rodada_id) /\ Existe(rodada_id))
          => \A usuario_id \in Usuarios : \A form \in FormsPalpite(rodada_id) :
                 (/\ salvar_aposta(usuario_id, rodada_id, form)
                  /\ \E i \in 1..Len(Rodada(rodada_id).jogos) : \E k \in 1..2 :
                         CampoInvalidoPalpite(form[i][k]))
                 => /\ resposta'.flash \in {"nao inteiro", "prazo encerrado"}
                    /\ UNCHANGED Banco]_vars

\* refused for a malformed field before the deadline, the bet of two
\* entries stored before still there
C29_Witness ==
    \E rodada_id \in RodadaIds :
        /\ resposta = Resposta("salvar_aposta", rodada_id, "nao inteiro", {})
        /\ Existe(rodada_id)
        /\ agora < Prazo(Rodada(rodada_id))
        /\ \E p \in Chave(palpites, "u1", rodada_id) :
               /\ Len(p.palpites) = 2
               /\ p.palpites[1].placar_casa = Num(1)
               /\ p.palpites[2].placar_casa = Num(0)
        /\ Chave(palpites, "u2", rodada_id) = {}

----------------------------------------------------------------------------
(* Properties of the readers of the open round, under SpecLeitura *)

\* the step is a lookup of the open round that returned this round
DevolveuAberta(rodada_id) ==
    /\ agora' = agora
    /\ resposta'.rota \in {"get_proxima_rodada_aberta", "admin_status_apostas"}
    /\ resposta'.rodada = rodada_id
    /\ resposta'.flash = ""

\* C26: a round that get_proxima_rodada_aberta or admin_status_apostas
\* returns as open for betting is a round for which salvar_aposta accepts a
\* bet at that same instant: the instant is before the deadline of the round.
C26_AbertaAceitaAposta ==
    [][\A rodada_id \in RodadaIds :
          (DevolveuAberta(rodada_id) /\ Existe(rodada_id))
          => /\ agora < Prazo(Rodada(rodada_id))
             /\ ~PrazoEncerrado(Rodada(rodada_id))]_vars

\* the round returned as open in the middle of the minute of its deadline
C26_Witness ==
    \E rodada_id \in RodadaIds :
        /\ resposta.rota = "admin_status_apostas"
        /\ resposta.rodada = rodada_id
        /\ resposta.flash = ""
        /\ Existe(rodada_id)
        /\ agora > Prazo(Rodada(rodada_id))
        /\ Len(resposta.pagina) = 2
        /\ ~resposta.pagina[1].apostou /\ resposta.pagina[2].apostou

----------------------------------------------------------------------------
(* Properties of concurrent scoring, under SpecConcorrente *)

EmCurso(q) == pc[q] \in {"ler palpites", "gravar"}

LeuNaoProcessada(q) == \A r \in lido[q].rodada : ~r.processada

\* C4: the read of the round and the update that sets processada are separate
\* steps and nothing is written in between: as long as no request has made
\* its final update, the stored round of a request in progress is still not
\* processada, so a second request passes the same check (C4_Witness: both
\* requests read processada false, both write the ranking, both succeed).
C4_LeituraSemTrava ==
    \A q \in Pedidos :
        (EmCurso(q) /\ \A o \in Pedidos : pc[o] # "sucesso")
        => /\ LeuNaoProcessada(q)
           /\ \A lida \in lido[q].rodada : \A r \in rodadas :
                  r._id = lida._id => ~r.processada

C4_Witness ==
    /\ \A q \in Pedidos :
          /\ pc[q] = "sucesso"
          /\ lido[q].rodada # {}
          /\ LeuNaoProcessada(q)
          /\ Cardinality(lido[q].palpites) = 2
          /\ lido[q].restantes = {}
    /\ Cardinality(ranking) = 2

====
